---- MODULE Spec2Model ----
(***************************************************************************)
(* Model of generator/generate_feed.py (PodcastFeedGenerator): the         *)
(* metadata-source chains, single-show generation, batch generation and    *)
(* the feed over all episodes.  The generator is one sequential flow of    *)
(* control; pc is its position, and a finished call leaves its outcome in  *)
(* result.  Metadata sources, EpisodeSource and Show.add_episodes_to_feed  *)
(* are collaborators whose replies are chosen nondeterministically.        *)
(*                                                                         *)
(* Spec         the calls of one generator, step by step                   *)
(* SpecNames    get_show_id_by_name over small catalogs and names          *)
(* SpecSources  the cached source lists of several generators              *)
(* SpecCli      batch_generate_feed.py: choice of shows, writing of files  *)
(* SpecAlias    webserver/alternate_show_names.py: chains of the table     *)
(***************************************************************************)
EXTENDS Integers, Sequences, FiniteSets

\* ---- bounds ----
NumShows == 2
NumShowSources == 2
NumEpSources == 2
MaxEpisodes == 2
MaxNameLen == 2
NumGenerators == 2

\* ---- catalog and configuration ----
\* ShowSource.shows: the catalog, keyed by show id
ShowIds == 1..NumShows
\* a show id no catalog entry has
UnknownShowId == NumShows + 1
\* program_defnr of orphaned episodes
OrphanShowId == 0
\* metadata_sources.SHOW_METADATA_SOURCES / EPISODE_METADATA_SOURCES, by position
ShowSources == 1..NumShowSources
EpSources == 1..NumEpSources
\* what a populate call can do: return, raise the skip signal, raise anything else
Outcomes == {"ok", "skip", "fatal"}

\* sequences over S of length at most n
SeqsUpTo(S, n) == UNION {[1..k -> S] : k \in 0..n}
\* collections of shows without repetition (the values of a dict of shows)
ShowCollections == {s \in SeqsUpTo(ShowIds, NumShows) : \A i, j \in DOMAIN s : i # j => s[i] # s[j]}
\* the catalog's shows in iteration order
AllShowsSeq == [i \in 1..NumShows |-> i]
Max(S) == CHOOSE x \in S : \A y \in S : y <= x
VARIABLES
    pc,               \* position of the flow of control
    mode,             \* "none", "single", "batch", "all": the public operation running (or last run)
    force,            \* generate_feed's argument
    skip_empty,       \* _generate_feed's argument
    enable_skip_show, \* _generate_feed's / _populate_show_metadata's argument
    episode_source,   \* _generate_feed's argument: "none" or "es"
    shows,            \* the collection handed to generate_feeds_sequence
    idx,              \* position in shows
    srcIdx,           \* position in the source chain being iterated
    all_episodes,     \* es.all_episodes: program_defnr of each raw record
    prefetched,       \* the EpisodeSource in use holds the whole-catalog list
    epList,           \* episode ids still to run through the episode chain, then done
    epIdx,            \* position in epList
    feedEntries,      \* episode ids added to the feed under construction
    feeds,            \* keys of the feeds dict of generate_feeds_sequence
    result,           \* outcome of the last finished call
    field,            \* the show source whose populate last wrote field F of the show in
                      \* hand in this pass of the chain (0: none has)
    epField,          \* the same for the episode in hand and the episode sources
    \* ---- observation of the current call ----
    esCreated,        \* EpisodeSource objects constructed
    fetchAllCount,    \* populate_all_episodes_list calls
    prepShow,         \* prepare_batch calls per show source
    prepEp,           \* prepare_batch calls per episode source
    consulted,        \* some accepts/populate call was made
    listRequested,    \* some episode_list call was made
    emptyList,        \* episode_list found no episode (NoEpisodesError)
    lastStep,         \* the last chain iteration
    chainSkip,        \* a source of the chain signalled skip for the entity in hand
    writers,          \* show sources that wrote F on the show in hand
    epWriters,        \* episode sources that wrote F on the episode in hand
    dropped,          \* shows whose _generate_feed raised NoEpisodesError or SkipShow
    started,          \* shows of the batch for which _generate_feed was called
    skipped           \* episodes for which an episode source raised SkipEpisode

genVars == <<pc, mode, force, skip_empty, enable_skip_show, episode_source, shows, idx, srcIdx,
          all_episodes, prefetched, epList, epIdx, feedEntries, feeds, result, field,
          epField, esCreated, fetchAllCount, prepShow, prepEp,
          consulted, listRequested, emptyList, lastStep, chainSkip, writers, epWriters,
          dropped, started, skipped>>

\* ---- state outside the generator's calls ----
VARIABLES
    titles,           \* show_source.get_show_names, turned round: the display title of each show
    queryName,        \* get_show_id_by_name's argument
    lookupResult,     \* how get_show_id_by_name ended, and the identifier it returned
    aliasName,        \* the URL slug being resolved through ALTERNATE_SHOW_NAMES
    aliasSeen,        \* the keys of the table the resolution went through
    aliasId,          \* the DigAS ID the resolution ended with, 0 before
    aliasState,       \* "idle", "following", "resolved", "dangling", "cycle"
    cache,            \* per generator and chain: the cached list of source instances, 0 unset
    made,             \* per generator and chain: how often the list of sources was built
    nextInst,         \* the next fresh object identity
    used,             \* <<generator, chain, instances>> of the source calls made so far
    lastCall,         \* the generator and the public operation called last
    cliPc,            \* position of batch_generate_feed.main
    cliArgs,          \* the catalog and the parsed command line
    chosen,           \* chosen_shows
    returned,         \* the show ids of the mapping generate_feeds_sequence returned
    files,            \* content of each show's target file: "old", "partial", "new"
    temp,             \* content of the temporary file: "none", "empty", "partial", "new"
    current,          \* the show whose feed is being saved, 0 between saves
    writes            \* per show: how often its target file was written or replaced

nameVars == <<titles, queryName, lookupResult>>
aliasVars == <<aliasName, aliasSeen, aliasId, aliasState>>
srcVars == <<cache, made, nextInst, used, lastCall>>
cliVars == <<cliPc, cliArgs, chosen, returned, files, temp, current, writes>>

sideVars == <<nameVars, aliasVars, srcVars, cliVars>>

vars == <<genVars, sideVars>>

\* get_show_id_by_name was not called
NoLookup == [outcome |-> "none", show_id |-> 0]

\* no name lookup is being looked at
NamesIdle ==
    /\ titles = <<>>
    /\ queryName = <<>>
    /\ lookupResult = NoLookup

\* no alias is being resolved
AliasIdle ==
    /\ aliasName = ""
    /\ aliasSeen = {}
    /\ aliasId = 0
    /\ aliasState = "idle"

\* no generator object is being looked at
SourcesIdle ==
    /\ cache = <<>>
    /\ made = <<>>
    /\ nextInst = 1
    /\ used = {}
    /\ lastCall = <<0, "none">>

\* the batch command line is not running
CliIdle ==
    /\ cliPc = "idle"
    /\ cliArgs = <<>>
    /\ chosen = {}
    /\ returned = {}
    /\ files = <<>>
    /\ temp = "none"
    /\ current = 0
    /\ writes = <<>>

\* a chain iteration: the chain, the source, the entity, whether the entity's
\* identifier is in the source's bypass set, the verdict of the source's own
\* accept logic, what accepts returned, what populate did ("none": not called),
\* and whether a source of the chain had signalled skip for the entity before
NoStep == [chain |-> "none", src |-> 0, ent |-> 0, bypassed |-> FALSE, logic |-> FALSE,
           accepted |-> FALSE, outcome |-> "none", afterSkip |-> FALSE]

GenInit ==
    /\ pc = "idle"
    /\ mode = "none"
    /\ force = FALSE
    /\ skip_empty = TRUE
    /\ enable_skip_show = TRUE
    /\ episode_source = "none"
    /\ shows = <<>>
    /\ idx = 1
    /\ srcIdx = 1
    /\ all_episodes = <<>>
    /\ prefetched = FALSE
    /\ epList = <<>>
    /\ epIdx = 1
    /\ feedEntries = <<>>
    /\ feeds = {}
    /\ result = "none"
    /\ field = 0
    /\ epField = 0
    /\ esCreated = 0
    /\ fetchAllCount = 0
    /\ prepShow = [s \in ShowSources |-> 0]
    /\ prepEp = [s \in EpSources |-> 0]
    /\ consulted = FALSE
    /\ listRequested = FALSE
    /\ emptyList = FALSE
    /\ lastStep = NoStep
    /\ chainSkip = FALSE
    /\ writers = {}
    /\ epWriters = {}
    /\ dropped = {}
    /\ started = {}
    /\ skipped = {}

Init ==
    /\ GenInit
    /\ NamesIdle
    /\ AliasIdle
    /\ SourcesIdle
    /\ CliIdle


\* ---- collaborators ----
\* MetadataSource.accepts: false when the entity's identifier is in the bypass
\* set the source was constructed with (SETTINGS.BYPASS_SHOW, SETTINGS.BYPASS_EPISODE),
\* the verdict of the source's own logic otherwise
Accepts(inBypass, logic) == ~inBypass /\ logic

\* positions of the whole-catalog list whose record belongs to show, in list order
EpisodesOf(all, show) ==
    LET pos == {i \in DOMAIN all : all[i] = show}
        F[k \in 0..Cardinality(pos)] ==
            IF k = 0 THEN <<>>
            ELSE LET rest == {i \in pos : Cardinality({j \in pos : j < i}) = k - 1}
                 IN Append(F[k - 1], CHOOSE i \in rest : TRUE)
    IN F[Cardinality(pos)]

\* EpisodeSource.episode_list: the show's part of the prefetched list, or else
\* the reply of a dedicated request (n records, numbered 1..n)
EpisodeList(isPrefetched, all, show, n) ==
    IF isPrefetched THEN EpisodesOf(all, show) ELSE [i \in 1..n |-> i]

\* what a chain iteration sees of populate: one of its outcomes when it is
\* called, "none" when it is not
PopulateReplies(called) == IF called THEN Outcomes ELSE {"none"}

\* ---- decisions of the generator ----
\* a lookup that never fails
ShowKnownAny(show_id) == TRUE
ShowKnownLenient(show_id) == show_id \in ShowIds \cup {UnknownShowId}
\* generate_feed: the catalog lookup
ShowKnown(show_id) == show_id \in ShowIds
\* generate_feed: the arguments passed on to _generate_feed
SkipEmptyArg(forced) == ~forced
EnableSkipShowArg(forced) == ~forced
\* a loop that visits the chain from its end
ShowSourceAtReversed(k) == NumShowSources + 1 - k
ShowSourceAtFirst(k) == 1
\* the k-th source visited by a loop over a chain
ShowSourceAt(k) == k
EpSourceAt(k) == k
\* a loop that does not ask accepts
ShouldPopulateAlways(accepted) == TRUE
\* a chain loop calls populate only on a source that accepts
ShouldPopulate(accepted) == accepted
\* handlers that ignore the flag
ReraiseSkipShowAlways(enable) == TRUE
ReraiseSkipShowNever(enable) == FALSE
ReraiseSkipShowInverted(enable) == ~enable
\* _populate_show_metadata: is a SkipShow raised again?
ReraiseSkipShow(enable) == enable
\* a handler that always goes on with an empty feed
ReraiseNoEpisodesNever(skipEmpty) == FALSE
\* _generate_feed: is a NoEpisodesError raised again?
ReraiseNoEpisodes(skipEmpty) == skipEmpty
\* a _generate_feed that ignores the EpisodeSource it is given
NeedsNewEpisodeSourceAlways(es) == TRUE
NeedsNewEpisodeSourceNever(es) == FALSE
\* _generate_feed: is a new EpisodeSource made?
NeedsNewEpisodeSource(es) == es = "none"
\* except clauses that catch too little, or everything
BatchCatchesSkipOnly(e) == e \in {"SkipShow"}
BatchCatchesAll(e) == TRUE
\* generate_feeds_sequence: the except clause
BatchCatches(e) == e \in {"NoEpisodesError", "SkipShow"}
\* _prepare_for_batch: the chain of each of the two loops
\* the position the scan of the episodes goes on from after a SkipEpisode (continue)
AfterSkipEpisodeBreak(i, n) == n + 1
\* generate_feed_with_all_episodes, line 204
AfterSkipEpisode(i, n) == i + 1

PrepFirstLoop == "episode"
\* a second loop that runs over the first loop's chain again
PrepSecondLoopCopied == "episode"
PrepSecondLoop == "show"

\* ---- control transfer ----
\* exception e leaves _generate_feed: the batch loop catches it and goes on, or
\* it reaches the caller of the public operation
Unwind(e) ==
    /\ dropped' = IF e \in {"NoEpisodesError", "SkipShow"}
                  THEN dropped \cup {shows[idx]} ELSE dropped
    /\ IF mode = "batch" /\ BatchCatches(e)
       THEN /\ pc' = "batch_loop"
            /\ idx' = idx + 1
            /\ UNCHANGED <<result, feeds>>
       ELSE /\ pc' = "done"
            /\ result' = e
            /\ UNCHANGED <<idx, feeds>>

\* the observation of a call starts empty
ResetObs ==
    /\ fetchAllCount' = 0
    /\ prepShow' = [s \in ShowSources |-> 0]
    /\ prepEp' = [s \in EpSources |-> 0]
    /\ consulted' = FALSE
    /\ listRequested' = FALSE
    /\ emptyList' = FALSE
    /\ lastStep' = NoStep
    /\ chainSkip' = FALSE
    /\ writers' = {}
    /\ epWriters' = {}
    /\ dropped' = {}
    /\ started' = {}
    /\ skipped' = {}

\* ---- generate_feed ----
CallGenerateFeed(show_id, forced) ==
    /\ pc = "idle"
    /\ mode' = "single"
    /\ force' = forced
    /\ skip_empty' = SkipEmptyArg(forced)
    /\ enable_skip_show' = EnableSkipShowArg(forced)
    /\ episode_source' = "none"
    /\ shows' = <<show_id>>
    /\ idx' = 1
    /\ srcIdx' = 1
    /\ epList' = <<>>
    /\ epIdx' = 1
    /\ feedEntries' = <<>>
    /\ feeds' = {}
    /\ esCreated' = 0
    /\ ResetObs
    /\ IF ShowKnown(show_id)
       THEN pc' = "show_chain" /\ result' = "none"
       ELSE pc' = "done" /\ result' = "NoSuchShowError"
    /\ all_episodes' = <<>>
    /\ prefetched' = FALSE
    /\ epField' = 0
    /\ field' = 0
    /\ UNCHANGED sideVars

\* ---- _populate_show_metadata: one iteration of the loop ----
ShowChainStep ==
    /\ pc = "show_chain"
    /\ \E inBypass \in BOOLEAN, logic \in BOOLEAN :
       \E o \in PopulateReplies(ShouldPopulate(Accepts(inBypass, logic))) :
         LET src == ShowSourceAt(srcIdx)
             show == shows[idx]
             acc == Accepts(inBypass, logic)
             cs == IF srcIdx = 1 THEN FALSE ELSE chainSkip
             w == IF srcIdx = 1 THEN {} ELSE writers
             f == IF srcIdx = 1 THEN 0 ELSE field
         IN /\ consulted' = TRUE
            /\ lastStep' = [chain |-> "show", src |-> src, ent |-> show, bypassed |-> inBypass,
                            logic |-> logic,
                            accepted |-> acc, outcome |-> o, afterSkip |-> cs]
            /\ chainSkip' = (cs \/ o = "skip")
            /\ field' = IF o = "ok" THEN src ELSE f
            /\ writers' = IF o = "ok" THEN w \cup {src} ELSE w
            /\ IF o = "fatal"
               THEN Unwind("Fatal") /\ UNCHANGED srcIdx
               ELSE IF o = "skip" /\ ReraiseSkipShow(enable_skip_show)
               THEN Unwind("SkipShow") /\ UNCHANGED srcIdx
               ELSE IF srcIdx < NumShowSources
               THEN srcIdx' = srcIdx + 1 /\ UNCHANGED <<pc, result, idx, dropped, feeds>>
               ELSE srcIdx' = 1 /\ pc' = "episode_list"
                    /\ UNCHANGED <<result, idx, dropped, feeds>>
    /\ UNCHANGED <<mode, force, skip_empty, enable_skip_show, episode_source, shows, all_episodes,
                   prefetched, epList, epIdx, feedEntries, epField,
                   esCreated, fetchAllCount, prepShow, prepEp, listRequested, emptyList, epWriters,
                   started, skipped>>
    /\ UNCHANGED sideVars

\* ---- _generate_feed: the episode source and the episode list ----
EpisodeListStep ==
    /\ pc = "episode_list"
    /\ \E n \in 0..MaxEpisodes, netOk \in BOOLEAN :
         LET fresh == NeedsNewEpisodeSource(episode_source)
             pre == IF fresh THEN FALSE ELSE prefetched
             list == EpisodeList(pre, all_episodes, shows[idx], n)
         IN /\ esCreated' = IF fresh THEN esCreated + 1 ELSE esCreated
            /\ prefetched' = pre
            /\ listRequested' = TRUE
            /\ emptyList' = ((pre \/ netOk) /\ list = <<>>)
            /\ epIdx' = 1
            /\ IF ~pre /\ ~netOk
               THEN Unwind("Fatal") /\ UNCHANGED epList
               ELSE IF list = <<>> /\ ReraiseNoEpisodes(skip_empty)
               THEN Unwind("NoEpisodesError") /\ UNCHANGED epList
               ELSE /\ epList' = list
                    /\ pc' = "add_episodes"
                    /\ UNCHANGED <<result, idx, dropped, feeds>>
    /\ UNCHANGED <<mode, force, skip_empty, enable_skip_show, episode_source, shows, srcIdx,
                   all_episodes, feedEntries, field, epField,
                   fetchAllCount, prepShow, prepEp, consulted, lastStep, chainSkip, writers,
                   epWriters, started, skipped>>
    /\ UNCHANGED sideVars

\* ---- Show.add_episodes_to_feed: one source on one episode ----
AddEpisodesStep ==
    /\ pc = "add_episodes"
    /\ epIdx <= Len(epList)
    /\ \E inBypass \in BOOLEAN, logic \in BOOLEAN :
       \E o \in PopulateReplies(Accepts(inBypass, logic)) :
         LET src == EpSourceAt(srcIdx)
             ep == epList[epIdx]
             acc == Accepts(inBypass, logic)
             cs == IF srcIdx = 1 THEN FALSE ELSE chainSkip
             w == IF srcIdx = 1 THEN {} ELSE epWriters
             ef == IF srcIdx = 1 THEN 0 ELSE epField
         IN /\ consulted' = TRUE
            /\ lastStep' = [chain |-> "episode", src |-> src, ent |-> ep, bypassed |-> inBypass,
                            logic |-> logic,
                            accepted |-> acc, outcome |-> o, afterSkip |-> cs]
            /\ chainSkip' = (cs \/ o = "skip")
            /\ epField' = IF o = "ok" THEN src ELSE ef
            /\ epWriters' = IF o = "ok" THEN w \cup {src} ELSE w
            /\ IF o = "fatal"
               THEN Unwind("Fatal") /\ UNCHANGED <<srcIdx, epIdx, feedEntries>>
               ELSE /\ UNCHANGED <<pc, result, idx, dropped, feeds>>
                    /\ IF o = "skip"
                       THEN epIdx' = epIdx + 1 /\ srcIdx' = 1 /\ UNCHANGED feedEntries
                       ELSE IF srcIdx < NumEpSources
                       THEN srcIdx' = srcIdx + 1 /\ UNCHANGED <<epIdx, feedEntries>>
                       ELSE /\ epIdx' = epIdx + 1
                            /\ srcIdx' = 1
                            /\ feedEntries' = Append(feedEntries, ep)
    /\ UNCHANGED <<mode, force, skip_empty, enable_skip_show, episode_source, shows, all_episodes,
                   prefetched, epList, field, esCreated, fetchAllCount,
                   prepShow, prepEp, listRequested, emptyList, writers, started, skipped>>
    /\ UNCHANGED sideVars

\* ---- _generate_feed: return feed.rss_str(...) ----
GenerateFeedReturn ==
    /\ pc = "add_episodes"
    /\ epIdx > Len(epList)
    /\ IF mode = "batch"
       THEN /\ feeds' = feeds \cup {shows[idx]}
            /\ idx' = idx + 1
            /\ pc' = "batch_loop"
            /\ UNCHANGED result
       ELSE /\ result' = "feed"
            /\ pc' = "done"
            /\ UNCHANGED <<feeds, idx>>
    /\ UNCHANGED <<mode, force, skip_empty, enable_skip_show, episode_source, shows, srcIdx,
                   all_episodes, prefetched, epList, epIdx, feedEntries, field, epField,
                   esCreated, fetchAllCount, prepShow, prepEp,
                   consulted, listRequested, emptyList, lastStep, chainSkip, writers, epWriters,
                   dropped, started, skipped>>
    /\ UNCHANGED sideVars

\* ---- generate_feeds_sequence: up to es = EpisodeSource(self.requests) ----
StartBatch(collection) ==
    /\ pc = "idle"
    /\ mode' = "batch"
    /\ force' = FALSE
    /\ skip_empty' = TRUE
    /\ enable_skip_show' = TRUE
    /\ episode_source' = "es"
    /\ shows' = collection
    /\ idx' = 1
    /\ srcIdx' = 1
    /\ epList' = <<>>
    /\ epIdx' = 1
    /\ feedEntries' = <<>>
    /\ feeds' = {}
    /\ esCreated' = 1
    /\ prefetched' = FALSE
    /\ all_episodes' = <<>>
    /\ ResetObs
    /\ pc' = "prep_fetch"
    /\ result' = "none"
    /\ epField' = 0
    /\ field' = 0
    /\ UNCHANGED sideVars

CallGenerateFeedsSequence ==
    \E collection \in ShowCollections : StartBatch(collection)

\* ---- generate_all_feeds_sequence ----
CallGenerateAllFeedsSequence == StartBatch(AllShowsSeq)

\* ---- generate_feed_with_all_episodes: up to es = EpisodeSource(self.requests) ----
CallGenerateFeedWithAllEpisodes ==
    /\ pc = "idle"
    /\ mode' = "all"
    /\ force' = FALSE
    /\ episode_source' = "es"
    /\ shows' = <<>>
    /\ idx' = 1
    /\ srcIdx' = 1
    /\ epList' = <<>>
    /\ epIdx' = 1
    /\ feedEntries' = <<>>
    /\ feeds' = {}
    /\ esCreated' = 1
    /\ prefetched' = FALSE
    /\ all_episodes' = <<>>
    /\ ResetObs
    /\ pc' = "prep_fetch"
    /\ result' = "none"
    /\ epField' = 0
    /\ skip_empty' = TRUE
    /\ enable_skip_show' = TRUE
    /\ field' = 0
    /\ UNCHANGED sideVars

\* ---- _prepare_for_batch: es.populate_all_episodes_list() ----
PrepFetch ==
    /\ pc = "prep_fetch"
    /\ fetchAllCount' = fetchAllCount + 1
    /\ \/ \E list \in SeqsUpTo(0..UnknownShowId, MaxEpisodes) :
            /\ all_episodes' = list
            /\ prefetched' = TRUE
            /\ pc' = "prep_first"
            /\ UNCHANGED result
       \/ /\ pc' = "done"
          /\ result' = "Fatal"
          /\ UNCHANGED <<all_episodes, prefetched>>
    /\ UNCHANGED <<mode, force, skip_empty, enable_skip_show, episode_source, shows, idx, srcIdx,
                   epList, epIdx, feedEntries, feeds, field, epField,
                   esCreated, prepShow, prepEp, consulted, listRequested, emptyList, lastStep,
                   chainSkip, writers, epWriters, dropped, started, skipped>>
    /\ UNCHANGED sideVars

\* source.prepare_batch() on the srcIdx-th source of the named chain
PrepareSource(chain) ==
    /\ prepEp' = IF chain = "episode" THEN [prepEp EXCEPT ![srcIdx] = @ + 1] ELSE prepEp
    /\ prepShow' = IF chain = "show" THEN [prepShow EXCEPT ![srcIdx] = @ + 1] ELSE prepShow

ChainLen(chain) == IF chain = "episode" THEN NumEpSources ELSE NumShowSources

\* ---- _prepare_for_batch: one iteration of the first loop ----
PrepFirstStep ==
    /\ pc = "prep_first"
    /\ PrepareSource(PrepFirstLoop)
    /\ \/ /\ IF srcIdx < ChainLen(PrepFirstLoop)
             THEN srcIdx' = srcIdx + 1 /\ UNCHANGED pc
             ELSE srcIdx' = 1 /\ pc' = "prep_second"
          /\ UNCHANGED result
       \/ /\ pc' = "done"
          /\ result' = "Fatal"
          /\ UNCHANGED srcIdx
    /\ UNCHANGED <<mode, force, skip_empty, enable_skip_show, episode_source, shows, idx,
                   all_episodes, prefetched, epList, epIdx, feedEntries, feeds, field,
                   epField, esCreated, fetchAllCount, consulted,
                   listRequested, emptyList, lastStep, chainSkip, writers, epWriters, dropped, started, skipped>>
    /\ UNCHANGED sideVars

\* ---- _prepare_for_batch: one iteration of the second loop ----
PrepSecondStep ==
    /\ pc = "prep_second"
    /\ PrepareSource(PrepSecondLoop)
    /\ \/ /\ IF srcIdx < ChainLen(PrepSecondLoop)
             THEN srcIdx' = srcIdx + 1 /\ UNCHANGED pc
             ELSE srcIdx' = 1 /\ pc' = IF mode = "batch" THEN "batch_loop" ELSE "build_episodes"
          /\ UNCHANGED result
       \/ /\ pc' = "done"
          /\ result' = "Fatal"
          /\ UNCHANGED srcIdx
    /\ UNCHANGED <<mode, force, skip_empty, enable_skip_show, episode_source, shows, idx,
                   all_episodes, prefetched, epList, epIdx, feedEntries, feeds, field,
                   epField, esCreated, fetchAllCount, consulted,
                   listRequested, emptyList, lastStep, chainSkip, writers, epWriters, dropped, started, skipped>>
    /\ UNCHANGED sideVars

\* ---- generate_feeds_sequence: the loop takes the next show ----
BatchNextShow ==
    /\ pc = "batch_loop"
    /\ idx <= Len(shows)
    /\ pc' = "show_chain"
    /\ srcIdx' = 1
    /\ feedEntries' = <<>>
    /\ started' = started \cup {shows[idx]}
    /\ UNCHANGED <<mode, force, skip_empty, enable_skip_show, episode_source, shows, idx,
                   all_episodes, prefetched, epList, epIdx, feeds, result, field, epField,
                   esCreated, fetchAllCount, prepShow, prepEp,
                   consulted, listRequested, emptyList, lastStep, chainSkip, writers, epWriters, dropped,
                   skipped>>
    /\ UNCHANGED sideVars

\* ---- generate_feeds_sequence: return feeds ----
BatchReturn ==
    /\ pc = "batch_loop"
    /\ idx > Len(shows)
    /\ pc' = "done"
    /\ result' = "mapping"
    /\ UNCHANGED <<mode, force, skip_empty, enable_skip_show, episode_source, shows, idx, srcIdx,
                   all_episodes, prefetched, epList, epIdx, feedEntries, feeds, field,
                   epField, esCreated, fetchAllCount, prepShow, prepEp,
                   consulted, listRequested, emptyList, lastStep, chainSkip, writers, epWriters,
                   dropped, started, skipped>>
    /\ UNCHANGED sideVars

\* records of the whole-catalog list that are not orphans, by position
NonOrphans(all) ==
    LET F[k \in 0..Len(all)] ==
            IF k = 0 THEN <<>>
            ELSE IF all[k] # OrphanShowId THEN Append(F[k - 1], k) ELSE F[k - 1]
    IN F[Len(all)]

\* ---- generate_feed_with_all_episodes: the list of Episode entities ----
BuildEpisodes ==
    /\ pc = "build_episodes"
    /\ IF \E i \in DOMAIN all_episodes :
            all_episodes[i] # OrphanShowId /\ ~ShowKnown(all_episodes[i])
       THEN /\ pc' = "done"
            /\ result' = "KeyError"
            /\ UNCHANGED epList
       ELSE /\ pc' = "all_chain"
            /\ epList' = NonOrphans(all_episodes)
            /\ UNCHANGED result
    /\ epIdx' = 1
    /\ srcIdx' = 1
    /\ UNCHANGED <<mode, force, skip_empty, enable_skip_show, episode_source, shows, idx,
                   all_episodes, prefetched, feedEntries, feeds, field, epField,
                   esCreated, fetchAllCount, prepShow, prepEp, consulted,
                   listRequested, emptyList, lastStep, chainSkip, writers, epWriters, dropped, started, skipped>>
    /\ UNCHANGED sideVars

\* ---- generate_feed_with_all_episodes: one source on one episode ----
AllChainStep ==
    /\ pc = "all_chain"
    /\ epIdx <= Len(epList)
    /\ \E inBypass \in BOOLEAN, logic \in BOOLEAN :
       \E o \in PopulateReplies(ShouldPopulate(Accepts(inBypass, logic))) :
         LET src == EpSourceAt(srcIdx)
             ep == epList[epIdx]
             acc == Accepts(inBypass, logic)
             cs == IF srcIdx = 1 THEN FALSE ELSE chainSkip
             w == IF srcIdx = 1 THEN {} ELSE epWriters
             ef == IF srcIdx = 1 THEN 0 ELSE epField
         IN /\ consulted' = TRUE
            /\ lastStep' = [chain |-> "episode", src |-> src, ent |-> ep, bypassed |-> inBypass,
                            logic |-> logic,
                            accepted |-> acc, outcome |-> o, afterSkip |-> cs]
            /\ chainSkip' = (cs \/ o = "skip")
            /\ epField' = IF o = "ok" THEN src ELSE ef
            /\ epWriters' = IF o = "ok" THEN w \cup {src} ELSE w
            /\ skipped' = IF o = "skip" THEN skipped \cup {ep} ELSE skipped
            /\ IF o = "fatal"
               THEN /\ pc' = "done"
                    /\ result' = "Fatal"
                    /\ UNCHANGED <<srcIdx, epIdx, feedEntries>>
               ELSE /\ UNCHANGED <<pc, result>>
                    /\ IF o = "skip"
                       THEN /\ epIdx' = AfterSkipEpisode(epIdx, Len(epList))
                            /\ srcIdx' = 1
                            /\ UNCHANGED feedEntries
                       ELSE IF srcIdx < NumEpSources
                       THEN srcIdx' = srcIdx + 1 /\ UNCHANGED <<epIdx, feedEntries>>
                       ELSE /\ epIdx' = epIdx + 1
                            /\ srcIdx' = 1
                            /\ feedEntries' = Append(feedEntries, ep)
    /\ UNCHANGED <<mode, force, skip_empty, enable_skip_show, episode_source, shows, idx,
                   all_episodes, prefetched, epList, feeds, field,
                   esCreated, fetchAllCount, prepShow, prepEp, listRequested, emptyList, writers,
                   dropped, started>>
    /\ UNCHANGED sideVars

\* ---- generate_feed_with_all_episodes: return feed.rss_str(...) ----
AllReturn ==
    /\ pc = "all_chain"
    /\ epIdx > Len(epList)
    /\ pc' = "done"
    /\ result' = "feed"
    /\ UNCHANGED <<mode, force, skip_empty, enable_skip_show, episode_source, shows, idx, srcIdx,
                   all_episodes, prefetched, epList, epIdx, feedEntries, feeds, field,
                   epField, esCreated, fetchAllCount, prepShow, prepEp,
                   consulted, listRequested, emptyList, lastStep, chainSkip, writers, epWriters,
                   dropped, started, skipped>>
    /\ UNCHANGED sideVars

\* ---- the call is over: its caller has the result, its locals are gone ----
ReturnToCaller ==
    /\ pc = "done"
    /\ pc' = "idle"
    /\ mode' = "none"
    /\ force' = FALSE
    /\ skip_empty' = TRUE
    /\ enable_skip_show' = TRUE
    /\ episode_source' = "none"
    /\ shows' = <<>>
    /\ idx' = 1
    /\ srcIdx' = 1
    /\ all_episodes' = <<>>
    /\ prefetched' = FALSE
    /\ epList' = <<>>
    /\ epIdx' = 1
    /\ feedEntries' = <<>>
    /\ feeds' = {}
    /\ result' = "none"
    /\ field' = 0
    /\ epField' = 0
    /\ esCreated' = 0
    /\ ResetObs
    /\ UNCHANGED sideVars

Next ==
    \/ \E show_id \in ShowIds \cup {UnknownShowId}, forced \in BOOLEAN :
          CallGenerateFeed(show_id, forced)
    \/ ShowChainStep
    \/ EpisodeListStep
    \/ AddEpisodesStep
    \/ GenerateFeedReturn
    \/ CallGenerateFeedsSequence
    \/ CallGenerateAllFeedsSequence
    \/ CallGenerateFeedWithAllEpisodes
    \/ PrepFetch
    \/ PrepFirstStep
    \/ PrepSecondStep
    \/ BatchNextShow
    \/ BatchReturn
    \/ BuildEpisodes
    \/ AllChainStep
    \/ AllReturn
    \/ ReturnToCaller

Spec == Init /\ [][Next]_vars

TypeOK ==
    /\ pc \in {"idle", "done", "show_chain", "episode_list", "add_episodes", "prep_fetch",
               "prep_first", "prep_second", "batch_loop", "build_episodes", "all_chain"}
    /\ mode \in {"none", "single", "batch", "all"}
    /\ result \in {"none", "feed", "mapping", "NoSuchShowError", "NoEpisodesError",
                   "SkipShow", "Fatal", "KeyError"}
    /\ feeds \subseteq ShowIds
    /\ srcIdx \in 1..(NumShowSources + NumEpSources)

Range(seq) == {seq[i] : i \in DOMAIN seq}

\* pc values inside and after _prepare_for_batch
PrepPcs == {"prep_fetch", "prep_first", "prep_second"}
AfterPrepPcs == {"batch_loop", "show_chain", "episode_list", "add_episodes",
                 "build_episodes", "all_chain"}
AllPreparedOnce ==
    /\ \A s \in ShowSources : prepShow[s] = 1
    /\ \A s \in EpSources : prepEp[s] = 1

\* C1: in a call of generate_feeds_sequence one EpisodeSource is created, it is
\* the one every _generate_feed of the batch is given, and
\* populate_all_episodes_list is called on it exactly once, whatever the number
\* of shows.
C1_FetchOnce ==
    mode = "batch" =>
        /\ esCreated = 1
        /\ episode_source = "es"
        /\ fetchAllCount <= 1
        /\ (pc # "prep_fetch" => fetchAllCount = 1)

\* a batch over all the shows of the catalog returned, with every show in it
C1_Witness ==
    /\ mode = "batch"
    /\ pc = "done"
    /\ result = "mapping"
    /\ Len(shows) = NumShows
    /\ feeds = ShowIds
    /\ fetchAllCount = 1

\* C2: in generate_feeds_sequence and generate_feed_with_all_episodes no source
\* has prepare_batch called twice, no accepts/populate call precedes a
\* prepare_batch call, and once preparation is complete every source has had
\* prepare_batch called exactly once.
C2_PrepareOnceBeforePopulate ==
    mode \in {"batch", "all"} =>
        /\ \A s \in ShowSources : prepShow[s] <= 1
        /\ \A s \in EpSources : prepEp[s] <= 1
        /\ (pc \in PrepPcs => ~consulted)
        /\ (consulted \/ pc \in AfterPrepPcs \/ result \in {"mapping", "feed"}) => AllPreparedOnce

\* the feed over all episodes was returned after sources were consulted
C2_Witness ==
    /\ mode = "all"
    /\ result = "feed"
    /\ consulted
    /\ AllPreparedOnce

\* C3: populate is never called by a source on an entity whose identifier is in
\* that source's bypass set, in any operation.
C3_BypassNeverPopulated == lastStep.outcome # "none" => ~lastStep.bypassed

\* a show source whose own logic accepts a bypassed show was passed over
C3_Witness ==
    /\ lastStep.chain = "show"
    /\ lastStep.logic
    /\ lastStep.bypassed
    /\ lastStep.outcome = "none"

\* C4: in generate_feeds_sequence a SkipShow or NoEpisodesError of a show never
\* reaches the caller, the show is not in the mapping, and the mapping returned
\* holds exactly the shows of the collection that raised neither, every show of
\* the collection having been processed.
C4_BatchDropsSkipped ==
    mode = "batch" =>
        /\ result \notin {"SkipShow", "NoEpisodesError"}
        /\ dropped \cap feeds = {}
        /\ (result = "mapping" =>
               /\ started = Range(shows)
               /\ feeds = Range(shows) \ dropped)

\* the first show of a batch was dropped and the second one is in the mapping
C4_Witness ==
    /\ mode = "batch"
    /\ result = "mapping"
    /\ Len(shows) = 2
    /\ shows[1] \in dropped
    /\ shows[2] \in feeds

\* C5: generate_feed(show_id, force=True) on a known show never ends in SkipShow
\* or NoEpisodesError: unless some other failure occurs it returns a feed, and
\* the feed of a show without episodes has no entry.
C5_ForcedSuppresses ==
    (mode = "single" /\ force /\ shows[1] \in ShowIds) =>
        /\ result \notin {"SkipShow", "NoEpisodesError"}
        /\ dropped = {}
        /\ (pc = "done" => result \in {"feed", "Fatal"})
        /\ (pc = "done" /\ result = "feed" /\ emptyList => feedEntries = <<>>)

\* a forced call returned an empty feed although the last show source raised
\* SkipShow and the episode list was empty
C5_Witness ==
    /\ mode = "single"
    /\ force
    /\ result = "feed"
    /\ lastStep.chain = "show"
    /\ lastStep.outcome = "skip"
    /\ emptyList
    /\ feedEntries = <<>>

\* C6: generate_feed(show_id, force=False) on a known show ends in SkipShow as
\* soon as a show source raises it, ends in NoEpisodesError when the episode
\* list is empty, and returns a feed in neither case.
C6_UnforcedPropagates ==
    (mode = "single" /\ ~force /\ shows[1] \in ShowIds) =>
        /\ (lastStep.chain = "show" /\ lastStep.outcome = "skip"
               => pc = "done" /\ result = "SkipShow")
        /\ (emptyList => pc = "done" /\ result = "NoEpisodesError")
        /\ (result = "feed" => dropped = {})

\* an unforced call ended in NoEpisodesError
C6_Witness ==
    /\ mode = "single"
    /\ ~force
    /\ emptyList
    /\ result = "NoEpisodesError"

\* C7: generate_feed on a show id that is not in the catalog ends in
\* NoSuchShowError, for both values of force, with no source consulted, no
\* EpisodeSource made and no episode list requested.
C7_UnknownShow ==
    (mode = "single" /\ shows[1] \notin ShowIds) =>
        /\ pc = "done"
        /\ result = "NoSuchShowError"
        /\ ~consulted
        /\ ~listRequested
        /\ esCreated = 0

\* a forced call on an unknown show id failed
C7_Witness ==
    /\ mode = "single"
    /\ force
    /\ shows[1] = UnknownShowId
    /\ result = "NoSuchShowError"

\* C8: in generate_feeds_sequence a failure other than NoEpisodesError and
\* SkipShow ends the call with that failure: no mapping is returned and no later
\* show of the collection is processed.
C8_FatalAbortsBatch ==
    (mode = "batch" /\ lastStep.outcome = "fatal") =>
        /\ pc = "done"
        /\ result = "Fatal"
        /\ \A k \in DOMAIN shows : k > idx => shows[k] \notin started

\* the first of two shows failed
C8_Witness ==
    /\ mode = "batch"
    /\ lastStep.outcome = "fatal"
    /\ result = "Fatal"
    /\ Len(shows) = 2
    /\ idx = 1

\* C9 as stated: no source is consulted on an entity after a source of the same
\* chain has signalled skip for it, in every generation mode.
C9_SkipAbortsChain == ~lastStep.afterSkip

\* C9 amended: a source is consulted on an entity after a source of the same
\* chain has signalled skip for it only in the show-level chain of a forced
\* generate_feed.
C9_SkipAbortsChainUnlessForced ==
    lastStep.afterSkip => (mode = "single" /\ force /\ lastStep.chain = "show")

\* in a batch the first show source raised SkipShow and the batch went on
\* without consulting the second
C9_Witness ==
    /\ mode = "batch"
    /\ pc = "batch_loop"
    /\ lastStep.chain = "show"
    /\ lastStep.outcome = "skip"
    /\ lastStep.src < NumShowSources

\* C10: the value of field F of an entity is the one written by the last source
\* in configured chain order among those whose populate wrote it.
C10_LastWriterWins ==
    /\ (lastStep.chain = "show" /\ writers # {} => field = Max(writers))
    /\ (lastStep.chain = "episode" /\ epWriters # {} => epField = Max(epWriters))

\* every show source wrote F on a show
C10_Witness ==
    /\ lastStep.chain = "show"
    /\ writers = ShowSources
    /\ field = NumShowSources

\* ---- C11 ----
\* the positions of the whole-catalog list that are kept: not an orphan, not skipped
KeptRecords(all, skip) ==
    LET F[k \in 0..Len(all)] ==
            IF k = 0 THEN <<>>
            ELSE IF all[k] # 0 /\ k \notin skip THEN Append(F[k - 1], k) ELSE F[k - 1]
    IN F[Len(all)]

\* C11: generate_feed_with_all_episodes returns a feed that holds exactly the records of the
\* whole-catalog list that are not orphans (show id 0) and for which no episode source
\* raised SkipEpisode, in the order of that list; a skipped episode is never in the feed
\* and the episodes after it are still run through the chain.
C11_AllEpisodesFeed ==
    mode = "all" =>
        /\ skipped \cap Range(feedEntries) = {}
        /\ result = "feed" => feedEntries = KeptRecords(all_episodes, skipped)

\* C11 witness: the first record raised SkipEpisode, the second one is in the feed
C11_Witness ==
    /\ mode = "all"
    /\ result = "feed"
    /\ skipped = {1}
    /\ feedEntries = <<2>>

\* ---- C14 ----
\* C14: in generate_feeds_sequence the shows are taken one at a time in the order of the
\* supplied collection; the show-level sources of the show in hand are consulted in chain
\* order, starting with the first one, after the calls for the shows before it, and the
\* episode list of a show is requested only after the last show-level source was
\* consulted for it.
C14_BatchOrder ==
    mode = "batch" =>
        /\ started = {shows[k] : k \in 1..(IF \/ pc \in {"show_chain", "episode_list",
                                                         "add_episodes"}
                                              \/ pc = "done" /\ result = "Fatal" /\ consulted
                                           THEN idx ELSE idx - 1)}
        /\ lastStep.chain = "show" => lastStep.ent \in started
        /\ (pc = "show_chain" /\ srcIdx = 1 /\ lastStep.chain # "none") =>
              lastStep.ent # shows[idx] \/ lastStep.chain = "episode"
        /\ (pc = "show_chain" /\ srcIdx > 1) =>
              /\ lastStep.chain = "show"
              /\ lastStep.ent = shows[idx]
              /\ lastStep.src = srcIdx - 1
        /\ pc = "episode_list" =>
              /\ lastStep.chain = "show"
              /\ lastStep.ent = shows[idx]
              /\ lastStep.src = NumShowSources
        /\ pc = "add_episodes" =>
              \/ lastStep.chain = "episode"
              \/ /\ lastStep.chain = "show"
                 /\ lastStep.ent = shows[idx]
                 /\ lastStep.src = NumShowSources

\* C14 witness: the chain of the second show of a batch is through, its list is due
C14_Witness ==
    /\ mode = "batch"
    /\ pc = "episode_list"
    /\ idx = 2
    /\ lastStep.chain = "show"
    /\ lastStep.src = NumShowSources
    /\ lastStep.ent = shows[2]

\* ---- C16 ----
\* C16: in the show-level chain, a SkipShow raised with enable_skip_show false is
\* swallowed and the next source of the chain is consulted next (accepts, and populate
\* when it accepts), so that the chain runs to its last source; with enable_skip_show
\* true the SkipShow leaves the chain at once: no later source is consulted for the show.
C16_SkipShowSwallowedOrRaised ==
    /\ (lastStep.chain = "show" /\ lastStep.outcome = "skip" /\ ~enable_skip_show) =>
          \/ pc = "show_chain" /\ srcIdx = lastStep.src + 1
          \/ /\ lastStep.src = NumShowSources
             /\ pc \in {"episode_list", "add_episodes", "done"}
             /\ result # "SkipShow"
    /\ (pc = "show_chain" /\ ~enable_skip_show /\ srcIdx > 1) =>
          /\ lastStep.chain = "show"
          /\ lastStep.src = srcIdx - 1
          /\ lastStep.afterSkip \/ lastStep.outcome = "skip" <=> chainSkip
    /\ lastStep.chain = "show" => (lastStep.accepted <=> lastStep.outcome # "none")
    /\ (lastStep.chain = "show" /\ lastStep.outcome = "skip" /\ enable_skip_show) =>
          \/ pc = "done" /\ result = "SkipShow" /\ mode = "single"
          \/ /\ mode = "batch"
             /\ lastStep.ent \in dropped
             /\ \/ pc = "batch_loop"
                \/ pc = "done" /\ result = "mapping"
                \/ pc = "show_chain" /\ srcIdx = 1 /\ lastStep.ent # shows[idx]

\* C16 witness: the whole chain was run although an earlier source raised SkipShow, and
\* the last source accepted and had populate called
C16_Witness ==
    /\ ~enable_skip_show
    /\ pc = "episode_list"
    /\ chainSkip
    /\ lastStep.afterSkip
    /\ lastStep.src = NumShowSources
    /\ lastStep.accepted
    /\ lastStep.outcome = "ok"

\* ---- C18 ----
\* C18: single-show generation never fetches the whole-catalog list and never calls
\* prepare_batch on a source; it makes one EpisodeSource of its own when it gets to the
\* episode list, so its sources have populate called without having been prepared.
C18_SingleNeverPrepares ==
    mode = "single" =>
        /\ pc \notin PrepPcs
        /\ fetchAllCount = 0
        /\ ~prefetched
        /\ \A s \in ShowSources : prepShow[s] = 0
        /\ \A s \in EpSources : prepEp[s] = 0
        /\ esCreated = IF listRequested THEN 1 ELSE 0

\* C18 witness: an episode source populated an episode in a single-show call
C18_Witness ==
    /\ mode = "single"
    /\ lastStep.chain = "episode"
    /\ lastStep.outcome = "ok"
    /\ esCreated = 1
    /\ \A s \in EpSources : prepEp[s] = 0

\* ---- C19 ----
\* a record of the whole-catalog list names a show that is not in the catalog
HasUnknownShow(all) == \E i \in DOMAIN all : all[i] \notin ShowIds \cup {0}

\* C19: in generate_feed_with_all_episodes no episode source is consulted before the
\* Episode entity of every non-orphan record exists; when a record names a show that is
\* not in the catalog the call ends with the lookup error (KeyError), no source was
\* consulted, nothing was added to the feed and no feed is returned.
C19_UnknownShowAborts ==
    mode = "all" =>
        /\ pc \in PrepPcs \cup {"build_episodes"} => (~consulted /\ epList = <<>>)
        /\ consulted =>
              Len(epList) = Cardinality({i \in DOMAIN all_episodes : all_episodes[i] # 0})
        /\ (prefetched /\ HasUnknownShow(all_episodes)) =>
              /\ ~consulted
              /\ feedEntries = <<>>
              /\ pc \in PrepPcs \cup {"build_episodes", "done"}
              /\ pc = "done" => result \in {"KeyError", "Fatal"}
        /\ result = "KeyError" => HasUnknownShow(all_episodes)

\* C19 witness: the second record names an unknown show, the first one a known show
C19_Witness ==
    /\ mode = "all"
    /\ result = "KeyError"
    /\ Len(all_episodes) = 2
    /\ all_episodes[1] \in ShowIds
    /\ all_episodes[2] = UnknownShowId
    /\ ~consulted

\* ==== get_show_id_by_name ====
\* the characters names are made of: a lower-case letter, an upper-case letter and a
\* character that is neither a letter nor a digit
Chars == {"a", "A", " "}
Names == SeqsUpTo(Chars, MaxNameLen)

\* str.lower
LowerChar(c) == IF c = "A" THEN "a" ELSE c
Lower(name) == [i \in DOMAIN name |-> LowerChar(name[i])]

\* re_remove_chars = re.compile(r"[^\w\d]|_"): what sub("", name) leaves
IsWordChar(c) == c \in {"a", "A"}
RemoveChars(name) == SelectSeq(name, IsWordChar)

\* the key the query is looked up with: name = name.lower()
QueryKey(name) == Lower(name)
\* the key a show is filed under in shows_lower_nospace
TitleKey(title) == RemoveChars(Lower(title))

\* what get_show_id_by_name can return (a show identifier) or raise; of several shows
\* filed under one key the dict comprehension keeps the one that comes last in
\* shows.items(), an order the generator does not control
GetShowIdByName(name, tt) ==
    LET found == {s \in DOMAIN tt : TitleKey(tt[s]) = QueryKey(name)}
    IN IF found = {}
       THEN {[outcome |-> "NoSuchShowError", show_id |-> 0]}
       ELSE {[outcome |-> "returned", show_id |-> s] : s \in found}

\* get_show_names is a dict keyed by title: no two shows of it have the same title
TitleCatalogs == {tt \in [ShowIds -> Names] : \A a, b \in ShowIds : a # b => tt[a] # tt[b]}

InitNames ==
    /\ GenInit
    /\ titles \in TitleCatalogs
    /\ queryName \in Names
    /\ lookupResult = NoLookup
    /\ AliasIdle
    /\ SourcesIdle
    /\ CliIdle

CallGetShowIdByName ==
    /\ lookupResult = NoLookup
    /\ lookupResult' \in GetShowIdByName(queryName, titles)
    /\ UNCHANGED <<titles, queryName, genVars, aliasVars, srcVars, cliVars>>

NextNames == CallGetShowIdByName

SpecNames == InitNames /\ [][NextNames]_vars

\* ---- C12 ----
\* a name without case and without the characters that are neither letters nor digits
Normalised(name) == RemoveChars(Lower(name))

\* C12: get_show_id_by_name returns the identifier of a show whose title equals the query
\* after lower-casing both and removing every non-alphanumeric character from both, and
\* raises NoSuchShowError when there is no such show.
C12_NameLookup ==
    lookupResult # NoLookup =>
        LET same == {s \in ShowIds : Normalised(titles[s]) = Normalised(queryName)}
        IN IF same = {}
           THEN lookupResult.outcome = "NoSuchShowError"
           ELSE lookupResult.outcome = "returned" /\ lookupResult.show_id \in same

\* ==== webserver/alternate_show_names.py ====
\* ALTERNATE_SHOW_NAMES: the value of a key is a DigAS ID (id, slug empty) or a new URL
\* slug (slug, id 0)
ALTERNATE_SHOW_NAMES == {
    [key |-> "perrong-perrong", id |-> 2380, slug |-> ""],
    [key |-> "teknikertimen", id |-> 2465, slug |-> ""],
    [key |-> "ctrl-alt-del-podkast", id |-> 1615, slug |-> ""],
    [key |-> "katarsis-podkast", id |-> 1617, slug |-> ""],
    [key |-> "Reservebenken", id |-> 2512, slug |-> ""],
    [key |-> "bokbaren", id |-> 1980, slug |-> ""],
    [key |-> "FraArkivet", id |-> 2560, slug |-> ""],
    [key |-> "maggesinet", id |-> 2341, slug |-> ""],
    [key |-> "nestenhelg", id |-> 2412, slug |-> ""],
    [key |-> "SandIMaskineriet", id |-> 2494, slug |-> ""],
    [key |-> "DenFolkeligeTimen", id |-> 2447, slug |-> ""],
    [key |-> "Helsebror", id |-> 2608, slug |-> ""],
    [key |-> "harselas", id |-> 2467, slug |-> ""],
    [key |-> "laurbaer", id |-> 2414, slug |-> ""],
    [key |-> "bankebrett", id |-> 2242, slug |-> ""],
    [key |-> "PratRR", id |-> 2589, slug |-> ""],
    [key |-> "Postkaakk", id |-> 2445, slug |-> ""],
    [key |-> "kulturdepartementet", id |-> 2339, slug |-> ""],
    [key |-> "Feriekolonien", id |-> 2609, slug |-> ""],
    [key |-> "TrondheimMannsfengselsPikemusikkorps", id |-> 2590, slug |-> ""],
    [key |-> "badegristimen", id |-> 2247, slug |-> ""],
    [key |-> "mandag", id |-> 2233, slug |-> ""],
    [key |-> "uillustrert-vitenskap", id |-> 1957, slug |-> ""],
    [key |-> "triks-i-ludo", id |-> 2245, slug |-> ""],
    [key |-> "Soulmat", id |-> 2445, slug |-> ""],
    [key |-> "Kara_sahara_podkast", id |-> 2424, slug |-> ""],
    [key |-> "Exphil-losen", id |-> 2425, slug |-> ""],
    [key |-> "urtefitte", id |-> 2383, slug |-> ""],
    [key |-> "Nerdeprat", id |-> 2592, slug |-> ""],
    [key |-> "Ukesenderen", id |-> 2438, slug |-> ""],
    [key |-> "internettet", id |-> 2347, slug |-> ""],
    [key |-> "byraaforeningen", id |-> 2345, slug |-> ""],
    [key |-> "patirshda", id |-> 1520, slug |-> ""],
    [key |-> "horror-night", id |-> 2338, slug |-> ""],
    [key |-> "ReaktorRR", id |-> 2607, slug |-> ""],
    [key |-> "tweed", id |-> 2410, slug |-> ""],
    [key |-> "Garasjen", id |-> 2511, slug |-> ""],
    [key |-> "filmofil", id |-> 232, slug |-> ""],
    [key |-> "globus-podkast", id |-> 1977, slug |-> ""],
    [key |-> "Institusjonen", id |-> 2539, slug |-> ""],
    [key |-> "bronch", id |-> 2340, slug |-> ""],
    [key |-> "GretneGamleGubber", id |-> 2541, slug |-> ""],
    [key |-> "nyhetsfredag", id |-> 2002, slug |-> ""],
    [key |-> "palmehaven", id |-> 2241, slug |-> ""],
    [key |-> "Skammekroken", id |-> 2611, slug |-> ""],
    [key |-> "sportsidiot", id |-> 2413, slug |-> ""],
    [key |-> "sekt", id |-> 2250, slug |-> ""],
    [key |-> "horror-night-english", id |-> 2350, slug |-> ""],
    [key |-> "gastromat", id |-> 2003, slug |-> ""],
    [key |-> "aspik", id |-> 2251, slug |-> ""],
    [key |-> "postkåkk", id |-> 0, slug |-> "soulmat"]}

AliasKeys == {e.key : e \in ALTERNATE_SHOW_NAMES}

\* str.lower on the names of the table: the names that hold an upper-case letter, with
\* their lower-case form; every other name of the table is its own lower-case form
UpperCased == {
    <<"DenFolkeligeTimen", "denfolkeligetimen">>,
    <<"Exphil-losen", "exphil-losen">>,
    <<"Feriekolonien", "feriekolonien">>,
    <<"FraArkivet", "fraarkivet">>,
    <<"Garasjen", "garasjen">>,
    <<"GretneGamleGubber", "gretnegamlegubber">>,
    <<"Helsebror", "helsebror">>,
    <<"Institusjonen", "institusjonen">>,
    <<"Kara_sahara_podkast", "kara_sahara_podkast">>,
    <<"Nerdeprat", "nerdeprat">>,
    <<"Postkaakk", "postkaakk">>,
    <<"PratRR", "pratrr">>,
    <<"ReaktorRR", "reaktorrr">>,
    <<"Reservebenken", "reservebenken">>,
    <<"SandIMaskineriet", "sandimaskineriet">>,
    <<"Skammekroken", "skammekroken">>,
    <<"Soulmat", "soulmat">>,
    <<"TrondheimMannsfengselsPikemusikkorps", "trondheimmannsfengselspikemusikkorps">>,
    <<"Ukesenderen", "ukesenderen">>}

LowerSlug(n) == IF \E p \in UpperCased : p[1] = n
                THEN (CHOOSE p \in UpperCased : p[1] = n)[2]
                ELSE n

\* "None of those are case-sensitive": two slugs are the same name
SameNameExact(a, b) == a = b
\* alternate_show_names.py, line 4
SameName(a, b) == LowerSlug(a) = LowerSlug(b)

\* the entries of the table a slug names
EntriesFor(slug) == {e \in ALTERNATE_SHOW_NAMES : SameName(e.key, slug)}

InitAlias ==
    /\ GenInit
    /\ NamesIdle
    /\ SourcesIdle
    /\ CliIdle
    /\ aliasName \in AliasKeys \cup {LowerSlug(k) : k \in AliasKeys}
    /\ aliasSeen = {}
    /\ aliasId = 0
    /\ aliasState = "following"

\* one lookup of the slug in hand: a DigAS ID ends the resolution, a new slug is
\* looked up in turn; a slug that is no key, or a key met before, ends it without an ID
FollowAlias ==
    /\ aliasState = "following"
    /\ IF EntriesFor(aliasName) = {}
       THEN /\ aliasState' = "dangling"
            /\ UNCHANGED <<aliasName, aliasSeen, aliasId>>
       ELSE \E e \in EntriesFor(aliasName) :
              IF e.key \in aliasSeen
              THEN /\ aliasState' = "cycle"
                   /\ UNCHANGED <<aliasName, aliasSeen, aliasId>>
              ELSE IF e.slug = ""
              THEN /\ aliasState' = "resolved"
                   /\ aliasId' = e.id
                   /\ aliasSeen' = aliasSeen \cup {e.key}
                   /\ UNCHANGED aliasName
              ELSE /\ aliasName' = e.slug
                   /\ aliasSeen' = aliasSeen \cup {e.key}
                   /\ UNCHANGED <<aliasId, aliasState>>
    /\ UNCHANGED <<genVars, nameVars, srcVars, cliVars>>

NextAlias == FollowAlias

SpecAlias == InitAlias /\ [][NextAlias]_vars /\ WF_vars(FollowAlias)

\* ---- C17 ----
\* C17: the resolution of every key of ALTERNATE_SHOW_NAMES, as written or in lower
\* case, with keys compared without regard to case, ends with a DigAS ID: it meets no slug that is not a key and no key
\* twice.
C17_AliasChainsEnd == <>(aliasState = "resolved" /\ aliasId > 0)

\* C17 witness: a resolution that went through a renamed programme's entry
C17_Witness ==
    /\ aliasState = "resolved"
    /\ Cardinality(aliasSeen) = 2
    /\ aliasId > 0

\* ==== the cached lists of metadata sources of several generators ====
Generators == 1..NumGenerators
Chains == {"show", "episode"}
\* identities are handed out up to this number; a generator needs two of them
MaxObjects == 2 * NumGenerators + 2

\* cached_property: the list is built when the instance holds no value for it yet
ComputesAlways(c) == TRUE
\* lines 36 and 48
Computes(c) == c = 0

\* one reading of self.show_metadata_sources or self.episode_metadata_sources by
\* generator g, followed by calls on the sources of the list read
Access(st, g, chain) ==
    LET c == st.cache[g][chain]
    IN IF Computes(c)
       THEN [cache |-> [st.cache EXCEPT ![g][chain] = st.next],
             made |-> [st.made EXCEPT ![g][chain] = @ + 1],
             next |-> st.next + 1,
             used |-> st.used \cup {<<g, chain, st.next>>}]
       ELSE [st EXCEPT !.used = @ \cup {<<g, chain, c>>}]

\* the readings of a call, in the order the code makes them
Accesses(st, g, path) ==
    LET F[k \in 0..Len(path)] == IF k = 0 THEN st ELSE Access(F[k - 1], g, path[k])
    IN F[Len(path)]

\* _prepare_for_batch: the episode sources (153), then the show sources (155); an
\* error of the fetch or of a prepare_batch leaves it early
PrepPaths == {<<>>, <<"episode">>, <<"episode", "show">>}
\* _generate_feed: the show sources (168), then the episode sources (115) unless the
\* show was skipped, had no episodes or a source failed
ShowPaths == {<<"show">>, <<"show", "episode">>}
\* generate_feed: nothing is read when the show is unknown
SinglePaths == {<<>>} \cup ShowPaths
\* the loop of generate_feeds_sequence over at most n shows
BatchBodies(n) ==
    LET F[k \in 0..n] ==
            IF k = 0 THEN {<<>>}
            ELSE F[k - 1] \cup {b \o seg : b \in F[k - 1], seg \in ShowPaths}
    IN F[n]
BatchPaths == PrepPaths \cup {<<"episode", "show">> \o b : b \in BatchBodies(NumShows)}
\* generate_feed_with_all_episodes: the episode sources are read for every episode (194)
AllPaths ==
    PrepPaths \cup {<<"episode", "show">> \o [i \in 1..k |-> "episode"] : k \in 0..MaxEpisodes}

InitSources ==
    /\ GenInit
    /\ NamesIdle
    /\ AliasIdle
    /\ CliIdle
    /\ cache = [g \in Generators |-> [c \in Chains |-> 0]]
    /\ made = [g \in Generators |-> [c \in Chains |-> 0]]
    /\ nextInst = 1
    /\ used = {}
    /\ lastCall = <<0, "none">>

\* a public operation of generator g, as far as the cached lists go
CallOn(g, op, paths) ==
    /\ nextInst <= MaxObjects
    /\ \E path \in paths :
         LET st == Accesses([cache |-> cache, made |-> made, next |-> nextInst,
                             used |-> used], g, path)
         IN /\ cache' = st.cache
            /\ made' = st.made
            /\ nextInst' = st.next
            /\ used' = st.used
    /\ lastCall' = <<g, op>>
    /\ UNCHANGED <<genVars, nameVars, aliasVars, cliVars>>

GenerateFeedOn(g) == CallOn(g, "generate_feed", SinglePaths)
GenerateFeedsSequenceOn(g) == CallOn(g, "generate_feeds_sequence", BatchPaths)
GenerateAllFeedsSequenceOn(g) == CallOn(g, "generate_all_feeds_sequence", BatchPaths)
GenerateFeedWithAllEpisodesOn(g) == CallOn(g, "generate_feed_with_all_episodes", AllPaths)

NextSources ==
    \/ \E g \in Generators : GenerateFeedOn(g)
    \/ \E g \in Generators : GenerateFeedsSequenceOn(g)
    \/ \E g \in Generators : GenerateAllFeedsSequenceOn(g)
    \/ \E g \in Generators : GenerateFeedWithAllEpisodesOn(g)

SpecSources == InitSources /\ [][NextSources]_vars

\* ---- C13 ----
\* C13: over any sequence of calls on the generators, the list of show-level sources and
\* the list of episode-level sources of a generator are each built at most once, when
\* first read; every source call of a generator goes to the instances built then, and
\* no instance serves two generators or two chains.
C13_SourcesInstantiatedOnce ==
    lastCall[1] # 0 =>
        /\ \A g \in Generators, c \in Chains :
              /\ made[g][c] <= 1
              /\ made[g][c] = 1 <=> cache[g][c] # 0
              /\ {u \in used : u[1] = g /\ u[2] = c} =
                    IF cache[g][c] = 0 THEN {} ELSE {<<g, c, cache[g][c]>>}
        /\ \A u, v \in used : u[3] = v[3] => u = v

\* C13 witness: two generators have built both of their lists, and a batch operation
\* was called on a generator that had them already
C13_Witness ==
    /\ \E g, h \in Generators :
          /\ g # h
          /\ \A c \in Chains : cache[g][c] # 0 /\ cache[h][c] # 0
    /\ lastCall[2] = "generate_feeds_sequence"
    /\ nextInst > 2 * 2
    /\ \E c \in Chains : cache[lastCall[1]][c] < nextInst - 2

\* ==== batch_generate_feed.py: main and save_feed_to_file ====
\* the show ids a catalog can hold and a command line can name
CliIds == ShowIds \cup {UnknownShowId}

\* the catalog (all_shows_set), the shows named (arg_shows_set), --exclude, whether
\* target_dir is there or may be created, whether naming_scheme holds %t, %i or %T
CliArgSets ==
    [known : SUBSET CliIds, given : SUBSET CliIds, exclude : BOOLEAN,
     dirUsable : BOOLEAN, schemeOk : BOOLEAN]

\* main, lines 52-55
ChosenShowsSwapped(all, arg, excl) == IF excl THEN all \cap arg ELSE all \ arg
ChosenShows(all, arg, excl) == IF excl THEN all \ arg ELSE all \cap arg
\* main, line 57
DroppedShows(all, arg) == arg \ all

\* save_feed_to_file: the file fp.write(feed) writes to
WrittenFileTarget == "target"
WrittenFile == "temp"

\* what a file holds after one more piece of the feed was written to it
MoreWritten(content) == IF content = "empty" THEN "partial" ELSE "new"

InitCli ==
    /\ GenInit
    /\ NamesIdle
    /\ AliasIdle
    /\ SourcesIdle
    /\ cliPc = "start"
    /\ cliArgs \in CliArgSets
    /\ chosen = {}
    /\ returned = {}
    /\ files = [s \in CliIds |-> "old"]
    /\ temp = "none"
    /\ current = 0
    /\ writes = [s \in CliIds |-> 0]

\* ---- main: from the parsed arguments to the checks of lines 57-75 ----
CliChooseShows ==
    /\ cliPc = "start"
    /\ LET all == cliArgs.known
           arg == cliArgs.given
           first == ChosenShows(all, arg, cliArgs.exclude)
       IN IF DroppedShows(all, arg) # {}
          THEN cliPc' = "usage_error" /\ chosen' = first
          ELSE IF arg # {} /\ first = {}
          THEN cliPc' = "usage_error" /\ chosen' = first
          ELSE /\ chosen' = IF arg = {} THEN all ELSE first
               /\ cliPc' = IF cliArgs.dirUsable /\ cliArgs.schemeOk
                            THEN "ready" ELSE "usage_error"
    /\ UNCHANGED <<cliArgs, returned, files, temp, current, writes>>
    /\ UNCHANGED <<genVars, nameVars, aliasVars, srcVars>>

\* ---- main, line 93: generate_feeds_sequence returns a mapping or raises ----
CliGenerate ==
    /\ cliPc = "ready"
    /\ \/ cliPc' = "aborted" /\ UNCHANGED returned
       \/ \E feeds_keys \in SUBSET chosen :
             /\ returned' = feeds_keys
             /\ cliPc' = "saving"
    /\ UNCHANGED <<cliArgs, chosen, files, temp, current, writes>>
    /\ UNCHANGED <<genVars, nameVars, aliasVars, srcVars>>

\* ---- save_feed_to_file, line 7: the temporary file of the next feed ----
CliOpenTemp ==
    /\ cliPc = "saving"
    /\ current = 0
    /\ \E show_id \in returned :
         /\ writes[show_id] = 0
         /\ current' = show_id
    /\ temp' = "empty"
    /\ UNCHANGED <<cliPc, cliArgs, chosen, returned, files, writes>>
    /\ UNCHANGED <<genVars, nameVars, aliasVars, srcVars>>

\* ---- save_feed_to_file, line 9: fp.write(feed), piece by piece, or an I/O error ----
CliWriteTemp ==
    /\ cliPc = "saving"
    /\ current # 0
    /\ temp \in {"empty", "partial"}
    /\ \/ /\ temp' = MoreWritten(temp)
          /\ files' = IF WrittenFile = "temp" THEN files
                       ELSE [files EXCEPT ![current] = MoreWritten(temp)]
          /\ UNCHANGED cliPc
       \/ /\ cliPc' = "io_error"
          /\ UNCHANGED <<temp, files>>
    /\ UNCHANGED <<cliArgs, chosen, returned, current, writes>>
    /\ UNCHANGED <<genVars, nameVars, aliasVars, srcVars>>

\* ---- save_feed_to_file, line 10: os.replace(tempname, target_file) ----
CliReplace ==
    /\ cliPc = "saving"
    /\ current # 0
    /\ temp = "new"
    /\ files' = [files EXCEPT ![current] = temp]
    /\ writes' = [writes EXCEPT ![current] = @ + 1]
    /\ temp' = "none"
    /\ current' = 0
    /\ UNCHANGED <<cliPc, cliArgs, chosen, returned>>
    /\ UNCHANGED <<genVars, nameVars, aliasVars, srcVars>>

\* ---- main: the loop of lines 97-98 is through ----
CliExit ==
    /\ cliPc = "saving"
    /\ current = 0
    /\ \A show_id \in returned : writes[show_id] > 0
    /\ cliPc' = "exit_ok"
    /\ UNCHANGED <<cliArgs, chosen, returned, files, temp, current, writes>>
    /\ UNCHANGED <<genVars, nameVars, aliasVars, srcVars>>

NextCli ==
    \/ CliChooseShows
    \/ CliGenerate
    \/ CliOpenTemp
    \/ CliWriteTemp
    \/ CliReplace
    \/ CliExit

SpecCli == InitCli /\ [][NextCli]_vars

\* ---- C15 ----
\* the shows the command line asks for
Expected(a) ==
    IF a.given = {} THEN a.known
    ELSE IF a.exclude THEN a.known \ a.given ELSE a.given

\* main stopped with a usage error, generate_feeds_sequence was not called, no file
\* was written
StoppedWithUsageError ==
    /\ cliPc = "usage_error"
    /\ returned = {}
    /\ temp = "none"
    /\ \A s \in CliIds : files[s] = "old" /\ writes[s] = 0

\* C15 as stated: with no ids given all known shows are chosen, with ids given and
\* without --exclude exactly the given ids, with --exclude all known shows but the given
\* ones; if a given id is unknown or the chosen set is empty, the command stops with a
\* usage error before generate_feeds_sequence is called and before any file is written.
C15_ChosenShows ==
    cliPc \notin {"idle", "start"} =>
        IF cliArgs.given \ cliArgs.known # {} \/ Expected(cliArgs) = {}
        THEN StoppedWithUsageError
        ELSE cliPc # "usage_error" => chosen = Expected(cliArgs)

\* C15, amended: an empty chosen set is a usage error only when ids were given; with no
\* ids given and an empty catalog the command goes on with no show.
C15_ChosenShowsUnlessNoneKnown ==
    cliPc \notin {"idle", "start"} =>
        /\ cliPc = "usage_error" => StoppedWithUsageError
        /\ IF \/ cliArgs.given \ cliArgs.known # {}
              \/ cliArgs.given # {} /\ Expected(cliArgs) = {}
           THEN cliPc = "usage_error"
           ELSE cliPc # "usage_error" => chosen = Expected(cliArgs)

\* C15 witness: --exclude with some of the known shows; the others were handed to
\* generate_feeds_sequence
C15_Witness ==
    /\ cliPc = "saving"
    /\ cliArgs.exclude
    /\ cliArgs.given # {}
    /\ chosen # {}
    /\ chosen = cliArgs.known \ cliArgs.given

====
